---- MODULE Spec2Model ----
(***************************************************************************)
(* State-machine model of the terminal snake game (src/snake.c).           *)
(*                                                                         *)
(* Coordinates follow the code: Point.x is the ROW (compared with HEIGHT   *)
(* by check_collision, changed by Down/Up), Point.y is the COLUMN          *)
(* (compared with WIDTH, changed by Left/Right).                           *)
(* Direction codes follow input(): 1 Down, 2 Left, 3 Up, 4 Right,          *)
(* 0 no direction yet, -1 quit.                                            *)
(***************************************************************************)
EXTENDS Integers, Sequences, FiniteSets, TLC

(***************************************************************************)
(* Program constants.  constants.h is not part of the sources at hand:     *)
(* the board sizes and the array capacity are taken from the               *)
(* specification (section 6: two constants, width and height; section 8:   *)
(* the 20 x 10 scenario; section 4.3: capacity sized to the maximum).      *)
(***************************************************************************)
\* (WIDTH, HEIGHT) pairs the model is checked for: a square board, a board
\* wider than high, and the 20 x 10 board of the specification's scenario.
Boards == { <<5, 5>>, <<5, 4>>, <<20, 10>> }

LENGTH_SNAKE == 21

\* rand() yields a value in 0 .. RAND_MAX; the model draws from 0 .. MaxRand,
\* which covers every residue modulo (WIDTH-2) and (HEIGHT-2) of every board.
MaxRand == 18

EOF == -1

\* What the (up to three) successive getchar() calls of one input() call
\* return.  Without pending input the non-blocking read returns EOF.
Keys == { <<EOF, EOF, EOF>>,        \* nothing pending
          <<27, 91, 65>>,           \* Up arrow
          <<27, 91, 66>>,           \* Down arrow
          <<27, 91, 67>>,           \* Right arrow
          <<27, 91, 68>>,           \* Left arrow
          <<27, 91, 72>>,           \* another CSI sequence (Home)
          <<27, 120, EOF>>,         \* ESC followed by 'x'
          <<120, EOF, EOF>>,        \* 'x'
          <<88, EOF, EOF>>,         \* 'X'
          <<113, EOF, EOF>> }       \* any other key ('q')

VARIABLES
    WIDTH, HEIGHT,      \* board size (fixed during a run)
    snake,              \* Point snake[LENGTH_SNAKE], index 0 = tail
    length,             \* number of live segments
    gameover,           \* 0 running, 1 self, 2 wall, -1 won
    score,
    fruitx, fruity,
    flag,               \* pending direction / quit signal
    key,                \* bytes read by the last input() call
    ts,                 \* tv_nsec of the last sleep of logic(), 0 before
    tty,                \* terminal mode: icanon, echo, cursor, nonblock
    events,             \* what the last loop iteration did, in order
    pc                  \* position in main: start, loop, wait, done
                        \* (check, checked: the collision harness below)

vars == << WIDTH, HEIGHT, snake, length, gameover, score, fruitx, fruity,
           flag, key, ts, tty, events, pc >>

Point(px, py) == [x |-> px, y |-> py]

Slots == 0 .. (LENGTH_SNAKE - 1)

----------------------------------------------------------------------------
(* fruits(): one coordinate from one rand() value each.                    *)
FruitX(r, w) == (r % (w - 2)) + 1

FruitY(r, h) == (r % (h - 2)) + 1

----------------------------------------------------------------------------
\* Variant: arrows are accepted without the reversal test.
input_noguard(f, k) ==
    IF k[1] = 27
    THEN IF k[2] = 91
         THEN CASE k[3] = 65 -> 3
                [] k[3] = 66 -> 1
                [] k[3] = 67 -> 4
                [] k[3] = 68 -> 2
                [] OTHER     -> f
         ELSE f
    ELSE IF k[1] = 120 \/ k[1] = 88 THEN -1 ELSE f

(* input(): the new value of *flag after reading the bytes k.              *)
input(f, k) ==
    IF k[1] = 27
    THEN IF k[2] = 91
         THEN CASE k[3] = 65 -> IF f # 1 THEN 3 ELSE f
                [] k[3] = 66 -> IF f # 3 THEN 1 ELSE f
                [] k[3] = 67 -> IF f # 2 THEN 4 ELSE f
                [] k[3] = 68 -> IF f # 4 THEN 2 ELSE f
                [] OTHER     -> f
         ELSE f
    ELSE IF k[1] = 120 \/ k[1] = 88 THEN -1 ELSE f

\* input() starts with system("stty -icanon -echo").
SttyRaw(t) == [t EXCEPT !.icanon = FALSE, !.echo = FALSE]

----------------------------------------------------------------------------
\* Variant: Down and Up exchanged.
NewHead_updown(temp, f) ==
    CASE f = 1 -> Point(temp.x - 1, temp.y)
      [] f = 2 -> Point(temp.x, temp.y - 1)
      [] f = 3 -> Point(temp.x + 1, temp.y)
      [] f = 4 -> Point(temp.x, temp.y + 1)

(* move_snake(), lines 122-142: the new head from the saved old head.      *)
NewHead(temp, f) ==
    CASE f = 1 -> Point(temp.x + 1, temp.y)
      [] f = 2 -> Point(temp.x, temp.y - 1)
      [] f = 3 -> Point(temp.x - 1, temp.y)
      [] f = 4 -> Point(temp.x, temp.y + 1)

\* Variant: the head advances but the body is not shifted.
move_snake_noshift(s, len, f) ==
    LET temp == s[len - 1]
    IN  [i \in Slots |-> IF i = len - 1 THEN NewHead(temp, f) ELSE s[i]]

(* move_snake(): shift every slot below length down by one, then set the   *)
(* head.  Slot length-1 first receives snake[length] (line 120, the        *)
(* highest index read) and is then overwritten for every flag in 1..4.     *)
MoveMaxIndex(len) == len

move_snake(s, len, f) ==
    LET temp == s[len - 1]
    IN  [i \in Slots |->
            IF i < len - 1 THEN s[i + 1]
            ELSE IF i = len - 1 THEN NewHead(temp, f)
            ELSE s[i]]

\* Variant: the body is compared before the border.
check_collision_selffirst(s, len, w, h) ==
    IF \E i \in 0 .. (len - 2) : s[len-1].x = s[i].x /\ s[len-1].y = s[i].y
    THEN 1
    ELSE IF s[len-1].x <= 0 \/ s[len-1].x >= h - 1 \/ s[len-1].y <= 0 \/ s[len-1].y >= w - 1
         THEN 2
         ELSE 0

\* Variant: the body is not compared at all.
check_collision_noself(s, len, w, h) ==
    IF s[len-1].x <= 0 \/ s[len-1].x >= h - 1 \/ s[len-1].y <= 0 \/ s[len-1].y >= w - 1
    THEN 2
    ELSE 0

(* check_collision(): 2 wall, 1 self, 0 none.                              *)
check_collision(s, len, w, h) ==
    IF s[len-1].x <= 0 \/ s[len-1].x >= h - 1 \/ s[len-1].y <= 0 \/ s[len-1].y >= w - 1
    THEN 2
    ELSE IF \E i \in 0 .. (len - 2) : s[len-1].x = s[i].x /\ s[len-1].y = s[i].y
         THEN 1
         ELSE 0

(* grow_snake(), lines 198-200: the highest index written is *length.      *)
GrowMaxIndex(len) == len

(* grow_snake(): the array part.  Every slot 1..length receives the slot   *)
(* below it, slot 0 keeps its value.                                       *)
grow_snake(s, len) ==
    [i \in Slots |-> IF i >= 1 /\ i <= len THEN s[i - 1] ELSE s[i]]

\* Variant: a threshold five points early instead of the equality.
WinCheck_early(sc) == IF sc >= 95 THEN -1 ELSE 0

\* Variant: a strict threshold above 100 instead of the equality.
WinCheck_never(sc) == IF sc > 100 THEN -1 ELSE 0

(* logic(), lines 247-249: the win test.                                   *)
WinCheck(sc) == IF sc = 100 THEN -1 ELSE 0

\* Variant: ten points per fruit.
ScoreAfterGrow_ten(sc) == sc + 10

(* grow_snake(), line 196.                                                 *)
ScoreAfterGrow(sc) == sc + 5

\* Variant: the cursor is shown again but stty is not reset.
Cleanup_nostty(t) == [t EXCEPT !.cursor = TRUE]

(* main(), lines 349-351: clear, tput cnorm, stty icanon echo.             *)
Cleanup(t) == [t EXCEPT !.cursor = TRUE, !.icanon = TRUE, !.echo = TRUE]

(* logic(): the sleep interval chosen from the score.                      *)
Interval(sc) ==
    IF sc >= 25 THEN 200000000
    ELSE IF sc >= 50 THEN 150000000
    ELSE IF sc >= 75 THEN 100000000
    ELSE 250000000

(* The order of the calls: logic() sleeps (line 234), returns when no      *)
(* direction is pending (235-237) and otherwise moves the snake (238).     *)
\* Variant: the sleep at the end of logic().
LogicEvents_sleeplast(f) ==
    IF f = 0 THEN << "sleep" >> ELSE << "move", "sleep" >>

LogicEvents(f) ==
    << "sleep" >> \o (IF f = 0 THEN << >> ELSE << "move" >>)

(* main(), lines 308-315: input(), break on the quit signal, else logic(). *)
LoopEvents(f) ==
    << "input" >> \o (IF f = -1 THEN << >> ELSE LogicEvents(f))

(* main(), lines 341-347: input(), break on the quit signal, else sleep.   *)
WaitEvents(f) ==
    << "input" >> \o (IF f = -1 THEN << >> ELSE << "sleep" >>)

----------------------------------------------------------------------------
TypeOK ==
    /\ WIDTH \in 4 .. 20 /\ HEIGHT \in 4 .. 20
    /\ length \in 1 .. LENGTH_SNAKE
    /\ gameover \in {-1, 0, 1, 2}
    /\ flag \in {-1, 0, 1, 2, 3, 4}
    /\ key \in Keys
    /\ pc \in {"start", "loop", "wait", "done", "check", "checked"}

(* main(), lines 282-294: the state before the terminal is set up.         *)
Init ==
    /\ \E b \in Boards : WIDTH = b[1] /\ HEIGHT = b[2]
    /\ \E r1 \in 0 .. MaxRand, r2 \in 0 .. MaxRand :
          /\ fruitx = FruitX(r1, WIDTH)
          /\ fruity = FruitY(r2, HEIGHT)
    /\ snake = [i \in Slots |->
                  IF i = 0 THEN Point(WIDTH \div 2, HEIGHT \div 2) ELSE Point(0, 0)]
    /\ length = 1
    /\ gameover = 0
    /\ score = 0
    /\ flag = 0
    /\ key = <<EOF, EOF, EOF>>
    /\ ts = 0
    /\ tty = [icanon |-> TRUE, echo |-> TRUE, cursor |-> TRUE, nonblock |-> FALSE]
    /\ events = << >>
    /\ pc = "start"

(* main(), lines 296-304: raw mode, hidden cursor, non-blocking stdin.     *)
Startup ==
    /\ pc = "start"
    /\ tty' = [icanon |-> FALSE, echo |-> FALSE, cursor |-> FALSE, nonblock |-> TRUE]
    /\ pc' = "loop"
    /\ UNCHANGED << WIDTH, HEIGHT, snake, length, gameover, score, fruitx, fruity,
                    flag, key, ts, events >>

\* Variant: the fruit is tested before the collision.
LogicMove_fruitfirst(f) ==
    LET s1 == move_snake(snake, length, f)
        c  == check_collision(s1, length, WIDTH, HEIGHT)
    IN  IF s1[length-1].x = fruitx /\ s1[length-1].y = fruity
        THEN /\ \E r1 \in 0 .. MaxRand, r2 \in 0 .. MaxRand :
                   /\ fruitx' = FruitX(r1, WIDTH)
                   /\ fruity' = FruitY(r2, HEIGHT)
             /\ score' = ScoreAfterGrow(score)
             /\ snake' = grow_snake(s1, length)
             /\ length' = length + 1
             /\ gameover' = IF c # 0 THEN c ELSE WinCheck(ScoreAfterGrow(score))
        ELSE /\ snake' = s1
             /\ gameover' = IF c # 0 THEN c ELSE WinCheck(score)
             /\ UNCHANGED << length, score, fruitx, fruity >>

(* logic() after the sleep, for a direction f in 1..4.                     *)
LogicMove(f) ==
    LET s1 == move_snake(snake, length, f)
        c  == check_collision(s1, length, WIDTH, HEIGHT)
    IN  IF c # 0
        THEN /\ snake' = s1
             /\ gameover' = c
             /\ UNCHANGED << length, score, fruitx, fruity >>
        ELSE IF s1[length-1].x = fruitx /\ s1[length-1].y = fruity
        THEN /\ \E r1 \in 0 .. MaxRand, r2 \in 0 .. MaxRand :
                   /\ fruitx' = FruitX(r1, WIDTH)
                   /\ fruity' = FruitY(r2, HEIGHT)
             /\ score' = ScoreAfterGrow(score)
             /\ snake' = grow_snake(s1, length)
             /\ length' = length + 1
             /\ gameover' = WinCheck(ScoreAfterGrow(score))
        ELSE /\ snake' = s1
             /\ gameover' = WinCheck(score)
             /\ UNCHANGED << length, score, fruitx, fruity >>

\* Variant: logic() without the early return for flag 0: move_snake takes
\* its default branch, the head slot keeps the zeroed snake[length], and
\* check_collision reports the border.
Loop_noreturn(k) ==
    /\ pc = "loop"
    /\ key' = k
    /\ flag' = input(flag, k)
    /\ tty' = SttyRaw(tty)
    /\ events' = LoopEvents(input(flag, k))
    /\ UNCHANGED << WIDTH, HEIGHT >>
    /\ IF input(flag, k) = -1
       THEN /\ pc' = "wait"
            /\ UNCHANGED << snake, length, gameover, score, fruitx, fruity, ts >>
       ELSE /\ ts' = Interval(score)
            /\ IF input(flag, k) = 0
               THEN /\ snake' = [i \in Slots |->
                                   IF i < length THEN snake[i + 1] ELSE snake[i]]
                    /\ gameover' = 2
                    /\ UNCHANGED << length, score, fruitx, fruity >>
               ELSE LogicMove(input(flag, k))
            /\ pc' = IF gameover' = 0 THEN "loop" ELSE "wait"

(* One iteration of the game loop, main() lines 306-316: input(), the      *)
(* quit test, then logic().                                                *)
Loop(k) ==
    /\ pc = "loop"
    /\ key' = k
    /\ flag' = input(flag, k)
    /\ tty' = SttyRaw(tty)
    /\ events' = LoopEvents(input(flag, k))
    /\ UNCHANGED << WIDTH, HEIGHT >>
    /\ IF input(flag, k) = -1
       THEN /\ pc' = "wait"
            /\ UNCHANGED << snake, length, gameover, score, fruitx, fruity, ts >>
       ELSE /\ ts' = Interval(score)
            /\ IF input(flag, k) = 0
               THEN UNCHANGED << snake, length, gameover, score, fruitx, fruity >>
               ELSE LogicMove(input(flag, k))
            /\ pc' = IF gameover' = 0 THEN "loop" ELSE "wait"

\* Variant: the wait ends on any key.
Wait_anykey(k) ==
    /\ pc = "wait"
    /\ key' = k
    /\ flag' = input(flag, k)
    /\ events' = WaitEvents(input(flag, k))
    /\ IF k[1] # EOF
       THEN /\ tty' = Cleanup(SttyRaw(tty))
            /\ pc' = "done"
       ELSE /\ tty' = SttyRaw(tty)
            /\ pc' = "wait"
    /\ UNCHANGED << WIDTH, HEIGHT, snake, length, gameover, score, fruitx, fruity, ts >>

(* One iteration of the post-game wait, main() lines 340-348, and, when    *)
(* the quit signal is set, the clean-up of lines 349-352.                  *)
Wait(k) ==
    /\ pc = "wait"
    /\ key' = k
    /\ flag' = input(flag, k)
    /\ events' = WaitEvents(input(flag, k))
    /\ IF input(flag, k) = -1
       THEN /\ tty' = Cleanup(SttyRaw(tty))
            /\ pc' = "done"
       ELSE /\ tty' = SttyRaw(tty)
            /\ pc' = "wait"
    /\ UNCHANGED << WIDTH, HEIGHT, snake, length, gameover, score, fruitx, fruity, ts >>

Next ==
    \/ Startup
    \/ \E k \in Keys : Loop(k)
    \/ \E k \in Keys : Wait(k)

Spec == Init /\ [][Next]_vars

----------------------------------------------------------------------------
(***************************************************************************)
(* A late game.  The whole game from Init is too large to explore on a     *)
(* board with room for the 21 segments of a win, so the end game is        *)
(* explored from one state of a real play on the 6 x 7 board (rows 1..5,   *)
(* columns 1..4, start (3,3)).  The play, one letter per tick (D L U R),   *)
(* a star where the fruit had been drawn on the cell the head enters:      *)
(*     D* L* D L U* U* U* U* R* D* D* D* R* U* U* U* R* D* D* D*           *)
(* Eighteen captures give score 90 and length 19; the fruit drawn by the   *)
(* last capture is any value fruits() can produce.                         *)
(***************************************************************************)
LateCells ==
    << <<5,2>>, <<5,2>>, <<5,1>>, <<4,1>>, <<3,1>>, <<2,1>>, <<1,1>>, <<1,2>>,
       <<2,2>>, <<3,2>>, <<4,2>>, <<4,3>>, <<3,3>>, <<2,3>>, <<1,3>>, <<1,4>>,
       <<2,4>>, <<3,4>>, <<4,4>> >>

InitLate ==
    /\ WIDTH = 6
    /\ HEIGHT = 7
    /\ \E r1 \in 0 .. MaxRand, r2 \in 0 .. MaxRand :
          /\ fruitx = FruitX(r1, WIDTH)
          /\ fruity = FruitY(r2, HEIGHT)
    /\ snake = [i \in Slots |->
                  IF i < Len(LateCells)
                  THEN Point(LateCells[i + 1][1], LateCells[i + 1][2])
                  ELSE Point(0, 0)]
    /\ length = Len(LateCells)
    /\ gameover = 0
    /\ score = 90
    /\ flag = 1
    /\ key = <<27, 91, 66>>
    /\ ts = Interval(85)
    /\ tty = [icanon |-> FALSE, echo |-> FALSE, cursor |-> FALSE, nonblock |-> TRUE]
    /\ events = LoopEvents(1)
    /\ pc = "loop"

NextLate ==
    \/ \E k \in Keys : Loop(k)
    \/ \E k \in Keys : Wait(k)

SpecLate == InitLate /\ [][NextLate]_vars

----------------------------------------------------------------------------
(***************************************************************************)
(* check_collision() on its own: every snake of up to MaxCheckLen segments *)
(* with coordinates anywhere on the 5 x 4 board, border cells included.    *)
(***************************************************************************)
MaxCheckLen == 3

CheckCells == { Point(r, c) : r \in 0 .. 3, c \in 0 .. 4 }

InitCollision ==
    /\ WIDTH = 5
    /\ HEIGHT = 4
    /\ \E n \in 1 .. MaxCheckLen :
          \E cells \in [0 .. (n - 1) -> CheckCells] :
             /\ length = n
             /\ snake = [i \in Slots |-> IF i < n THEN cells[i] ELSE Point(0, 0)]
    /\ gameover = 0
    /\ score = 0
    /\ fruitx = 1
    /\ fruity = 1
    /\ flag = 0
    /\ key = <<EOF, EOF, EOF>>
    /\ ts = 0
    /\ tty = [icanon |-> FALSE, echo |-> FALSE, cursor |-> FALSE, nonblock |-> TRUE]
    /\ events = << >>
    /\ pc = "check"

CheckStep ==
    /\ pc = "check"
    /\ gameover' = check_collision(snake, length, WIDTH, HEIGHT)
    /\ pc' = "checked"
    /\ UNCHANGED << WIDTH, HEIGHT, snake, length, score, fruitx, fruity, flag,
                    key, ts, tty, events >>

SpecCollision == InitCollision /\ [][CheckStep]_vars

----------------------------------------------------------------------------
(***************************************************************************)
(* Vocabulary of the properties, stated independently of the operators     *)
(* above.                                                                  *)
(***************************************************************************)
Down == 1
Left == 2
Up == 3
Right == 4

UnitVector(d) ==
    CASE d = Down  -> << 1, 0 >>
      [] d = Up    -> << -1, 0 >>
      [] d = Right -> << 0, 1 >>
      [] d = Left  -> << 0, -1 >>

Offset(p, d) == Point(p.x + UnitVector(d)[1], p.y + UnitVector(d)[2])

Opposite(d) ==
    CASE d = Down  -> Up
      [] d = Up    -> Down
      [] d = Right -> Left
      [] d = Left  -> Right

\* The direction an input event asks for, 0 when it asks for none.
Request(k) ==
    CASE k = <<27, 91, 65>> -> Up
      [] k = <<27, 91, 66>> -> Down
      [] k = <<27, 91, 67>> -> Right
      [] k = <<27, 91, 68>> -> Left
      [] OTHER -> 0

IsQuitKey(k) == k = <<120, EOF, EOF>> \/ k = <<88, EOF, EOF>>

OnBorder(p) == p.x <= 0 \/ p.x >= HEIGHT - 1 \/ p.y <= 0 \/ p.y >= WIDTH - 1

\* A step of the game loop that moves the snake: a direction is pending
\* after the input of this iteration.
MovingTick == pc = "loop" /\ flag' \in 1 .. 4

\* The cell the head enters in a moving tick.
Target == Offset(snake[length - 1], flag')

\* A moving tick that captures the fruit: the head enters the fruit cell and
\* the move collides with nothing.
Capture ==
    /\ MovingTick
    /\ Target = Point(fruitx, fruity)
    /\ ~ OnBorder(Target)
    /\ \A i \in 1 .. (length - 1) : snake[i] # Target

FruitOnSnake == \E i \in 0 .. (length - 1) : snake[i] = Point(fruitx, fruity)

----------------------------------------------------------------------------
\* C1: in every tick with a direction D in {Down, Left, Up, Right} the moved
\* snake has segment i equal to the old segment i+1 for i in [0, L-2] and its
\* head equal to the old head offset by D's unit vector; the length changes
\* only when the fruit was captured (the moved snake then sits one slot up).
C1_MoveShiftsAndOffsets ==
    [][ MovingTick =>
          LET off == length' - length
          IN  /\ off \in {0, 1}
              /\ off = 1 => Target = Point(fruitx, fruity)
              /\ \A i \in 0 .. (length - 2) : snake'[i + off] = snake[i + 1]
              /\ snake'[length - 1 + off] = Offset(snake[length - 1], flag')
      ]_vars

C1_Witness ==
    /\ pc = "loop"
    /\ length = 3
    /\ flag = Down
    /\ snake[2] = Offset(snake[1], Down)
    /\ snake[1] = Offset(snake[0], Left)

\* C2: check_collision returns Wall (2) whenever the head is on or beyond the
\* border, whether or not it overlaps the body; otherwise Self (1) exactly
\* when the head equals a segment at an index in [0, length-2]; otherwise 0.
C2_CollisionClass ==
    pc = "checked" =>
        LET head == snake[length - 1]
            self == \E i \in 0 .. (length - 2) : snake[i] = head
        IN  /\ OnBorder(head) => gameover = 2
            /\ (~ OnBorder(head) /\ self) => gameover = 1
            /\ (~ OnBorder(head) /\ ~ self) => gameover = 0

C2_Witness ==
    /\ pc = "checked"
    /\ length = 3
    /\ OnBorder(snake[2])
    /\ snake[0] = snake[2]
    /\ gameover = 2

\* C3: every fruit capture raises the length by exactly 1 and the score by
\* exactly 5, and no other step changes the length or the score.
C3_CaptureGrowsAndScores ==
    [][ IF Capture
        THEN length' = length + 1 /\ score' = score + 5
        ELSE length' = length /\ score' = score
      ]_vars

C3_Witness ==
    /\ score = 10
    /\ length = 3
    /\ pc = "loop"

\* C4: in every reachable state the fruit lies strictly inside the board:
\* fruitx (compared with the head's row) in [1, HEIGHT-2] and fruity
\* (compared with the head's column) in [1, WIDTH-2].
C4_FruitInterior ==
    /\ fruitx \in 1 .. (HEIGHT - 2)
    /\ fruity \in 1 .. (WIDTH - 2)

\* C5: the game becomes Won (gameover = -1) in the tick in which the score
\* reaches 100, it is never Won with another score, and no iteration of the
\* game loop starts with a score of 100 or more.
C5_WonAtExactly100 ==
    /\ [](gameover = -1 => score = 100)
    /\ [](pc = "loop" => score < 100)
    /\ [][ (score # 100 /\ score' = 100) => (gameover' = -1 /\ pc' = "wait") ]_vars

C5_Witness ==
    /\ gameover = -1
    /\ score = 100
    /\ length = 21
    /\ pc = "wait"

\* C6: the tick interval is 250 ms below 25 points, 200 ms from 25, 150 ms
\* from 50 and 100 ms from 75 points.
StepInterval(sc) ==
    IF sc < 25 THEN 250000000
    ELSE IF sc < 50 THEN 200000000
    ELSE IF sc < 75 THEN 150000000
    ELSE 100000000

C6_StepInterval ==
    [][ (pc = "loop" /\ flag' # -1) => ts' = StepInterval(score) ]_vars

\* C7: input replaces the pending direction by a requested direction unless
\* the request is the exact opposite of the current heading; an opposite
\* request leaves the heading unchanged and the move of that tick continues
\* in the previous heading; no input or an unrecognised key leaves the
\* pending direction unchanged.
C7_ReversalRejected ==
    [][ (pc \in {"loop", "wait"}) =>
          LET req == Request(key')
              reverse == (flag \in 1 .. 4) /\ (req = Opposite(flag))
              straight == (pc = "loop") =>
                             (snake'[length' - 1] = Offset(snake[length - 1], flag))
          IN  /\ ((req \in 1 .. 4) /\ ~ reverse) => (flag' = req)
              /\ ((req \in 1 .. 4) /\ reverse) => ((flag' = flag) /\ straight)
              /\ ((req = 0) /\ ~ IsQuitKey(key')) => (flag' = flag)
      ]_vars

C7_Witness ==
    /\ pc = "loop"
    /\ flag = Right
    /\ key = <<27, 91, 68>>
    /\ length = 3
    /\ snake[1] = Offset(snake[0], Right)
    /\ snake[2] = Offset(snake[1], Right)

C9_Scenario ==
    /\ []((WIDTH = 20 /\ HEIGHT = 10 /\ pc = "start") =>
             (length = 1 /\ snake[0] = Point(10, 5) /\ flag = 0))
    /\ [][ ( /\ WIDTH = 20 /\ HEIGHT = 10 /\ pc = "loop" /\ length = 1
             /\ Point(fruitx, fruity) \notin {Point(10, 6), Point(11, 6)} ) =>
             /\ (snake[0] = Point(10, 5) /\ flag = 0 /\ Request(key') = Right) =>
                   /\ snake'[0] = Point(10, 6)
                   /\ length' = 1 /\ score' = 0
                   /\ pc' = "loop"
             /\ (snake[0] = Point(10, 6) /\ flag = Right /\ Request(key') = Down) =>
                   /\ snake'[0] = Point(11, 6)
                   /\ length' = 1 /\ score' = 0
         ]_vars

\* C10: at every fruit spawn, the initial one and every relocation, the new
\* fruit is on no live segment of the snake.
C10_FruitSpawnsOffSnake ==
    /\ [](pc = "start" => ~ FruitOnSnake)
    /\ [][ score' # score => ~ FruitOnSnake' ]_vars

\* Every pair of consecutive live segments at Manhattan distance 1.
Dist(p, q) ==
    (IF p.x >= q.x THEN p.x - q.x ELSE q.x - p.x)
    + (IF p.y >= q.y THEN p.y - q.y ELSE q.y - p.y)

Adjacent == \A i \in 0 .. (length - 2) : Dist(snake[i], snake[i + 1]) = 1

\* C11: a loop iteration that leaves no direction chosen (flag 0) is a
\* no-op: snake, length, score, fruit and gameover are unchanged and the
\* game stays in the loop.
C11_NoDirectionNoOp ==
    [][ (pc = "loop" /\ flag' = 0) =>
          /\ UNCHANGED << snake, length, score, fruitx, fruity, gameover >>
          /\ gameover' = 0
          /\ pc' = "loop"
      ]_vars

C11_Witness ==
    /\ pc = "loop"
    /\ flag = 0
    /\ events = << "input", "sleep" >>
    /\ key = <<113, EOF, EOF>>

\* C12: once gameover # 0 the snake, length, score, fruit and gameover never
\* change again, and the process exits only in a poll of the post-game wait
\* that reads 'x' or 'X'; every other input leaves it waiting.
C12_TerminalAbsorbing ==
    [][ gameover # 0 =>
          /\ UNCHANGED << snake, length, score, fruitx, fruity, gameover >>
          /\ pc = "wait"
          /\ IF IsQuitKey(key') THEN pc' = "done" ELSE pc' = "wait"
      ]_vars

C12_Witness ==
    /\ gameover = 1
    /\ pc = "done"
    /\ IsQuitKey(key)

\* C13: consecutive live segments are at Manhattan distance exactly 1,
\* except in the states between a growth and the next move: every move
\* without a capture establishes adjacency and every step that does not
\* move the snake preserves it.
C13_ConsecutiveAdjacent ==
    /\ [](pc = "start" => Adjacent)
    /\ [][ /\ (MovingTick /\ ~ Capture) => Adjacent'
           /\ (~ MovingTick /\ Adjacent) => Adjacent'
       ]_vars

C13_Witness ==
    /\ pc = "loop"
    /\ length = 4
    /\ Adjacent
    /\ snake[0] # snake[1]

\* No two live segments on the same cell.
AllDistinct ==
    \A i \in 0 .. (length - 1) : \A j \in 0 .. (length - 1) :
        (i # j) => (snake[i] # snake[j])

\* C14 (as stated): at the start of every iteration of the game loop no two
\* live segments hold the same coordinate.
C14_NoDuplicateSegments ==
    pc = "loop" => AllDistinct

\* C14 (amended): at the start of every iteration of the game loop the only
\* live segments that may hold the same coordinate are segments 0 and 1, and
\* they coincide exactly in the state left by a tick that grew the snake.
C14_OnlyTailDuplicated ==
    /\ [](pc = "loop" =>
             \A i \in 0 .. (length - 1) : \A j \in 0 .. (length - 1) :
                 (i < j /\ snake[i] = snake[j]) => (i = 0 /\ j = 1))
    /\ [][ (pc = "loop" /\ pc' = "loop") =>
              ((length' >= 2 /\ snake'[0] = snake'[1]) <=> Capture) ]_vars

C14_Witness ==
    /\ pc = "loop"
    /\ length = 4
    /\ snake[0] = snake[1]
    /\ score = 15

\* C15: a tick whose move collides with the border or the body ends the game
\* with that classification and applies neither growth nor the win test:
\* length, score and fruit are unchanged, also when the head is on the fruit.
C15_CollisionIsTerminal ==
    [][ MovingTick =>
          LET self == \E i \in 1 .. (length - 1) : snake[i] = Target
              class == IF OnBorder(Target) THEN 2 ELSE IF self THEN 1 ELSE 0
          IN  (class # 0) =>
                 /\ gameover' = class
                 /\ pc' = "wait"
                 /\ UNCHANGED << length, score, fruitx, fruity >>
      ]_vars

C15_Witness ==
    /\ pc = "wait"
    /\ gameover = 1
    /\ snake[length - 1] = Point(fruitx, fruity)

\* Position of the first occurrence of an event in a sequence, 0 if absent.
First(seq, e) ==
    IF \E n \in 1 .. Len(seq) : seq[n] = e
    THEN CHOOSE n \in 1 .. Len(seq) :
            seq[n] = e /\ \A m \in 1 .. (n - 1) : seq[m] # e
    ELSE 0

Moved == First(events, "move") # 0

\* C16 (as stated): in an iteration that advances the snake the sleep comes
\* first, then the input is read, then the snake advances, with no sleep
\* between that input and the advance.
C16_SleepInputMove ==
    (pc \in {"loop", "wait"} /\ Moved) =>
        /\ First(events, "sleep") # 0
        /\ First(events, "sleep") < First(events, "input")
        /\ First(events, "input") < First(events, "move")
        /\ \A n \in 1 .. Len(events) :
              (First(events, "input") < n /\ n < First(events, "move")) =>
                  events[n] # "sleep"

\* C16 (amended): in an iteration that advances the snake the input is read
\* first, then the thread sleeps for the tick interval, then the snake
\* advances: the sleep lies between reading the input and the advance.
C16_InputSleepMove ==
    (pc \in {"loop", "wait"} /\ Moved) =>
        /\ First(events, "input") = 1
        /\ First(events, "input") < First(events, "sleep")
        /\ First(events, "sleep") < First(events, "move")

C16_Witness ==
    /\ pc = "loop"
    /\ events = << "input", "sleep", "move" >>
    /\ flag = Up

\* The snake after the move of a tick and before any growth: old segments
\* 1 .. length-1 followed by the new head.
MovedSeg(i) == IF i < length - 1 THEN snake[i + 1] ELSE Target

\* C17: on a fruit capture the new snake is the moved snake with one segment
\* inserted below the head, the inserted segment is a copy of the head
\* before the move, the head stays last on the fruit cell and the order of
\* the other segments is kept.
C17_InsertsPriorHead ==
    [][ Capture =>
          /\ snake'[length' - 1] = Point(fruitx, fruity)
          /\ \E p \in 0 .. (length - 1) :
                /\ snake'[p] = snake[length - 1]
                /\ \A i \in 0 .. (length - 1) :
                      snake'[IF i < p THEN i ELSE i + 1] = MovedSeg(i)
      ]_vars

\* C18: the score is a multiple of 5 in 0 .. 100 and length = 1 + score/5,
\* so the length is at most 21; the highest index move_snake reads and
\* grow_snake writes is at most 20, within a capacity of 21.
C18_LengthWithinCapacity ==
    /\ [](/\ score % 5 = 0
          /\ 0 <= score /\ score <= 100
          /\ length = 1 + (score \div 5)
          /\ length <= 21
          /\ length <= LENGTH_SNAKE)
    /\ [][ /\ MovingTick => (MoveMaxIndex(length) <= 20
                              /\ MoveMaxIndex(length) <= LENGTH_SNAKE - 1)
           /\ Capture => (GrowMaxIndex(length) <= 20
                           /\ GrowMaxIndex(length) <= LENGTH_SNAKE - 1)
       ]_vars

C18_Witness ==
    /\ length = 21
    /\ score = 100
    /\ events = << "input", "sleep", "move" >>
    /\ snake[20] # Point(0, 0)

\* C19: while gameover = 0, from the initial state on, every live segment
\* has its row in [1, HEIGHT-2] and its column in [1, WIDTH-2].
C19_SegmentsInterior ==
    gameover = 0 =>
        \A i \in 0 .. (length - 1) :
            /\ snake[i].x \in 1 .. (HEIGHT - 2)
            /\ snake[i].y \in 1 .. (WIDTH - 2)

\* C20: a quit key read in the game loop leaves snake, length, score, fruit
\* and gameover = 0 unchanged and leaves the loop with the quit signal set,
\* and the post-game wait then ends on its first poll, whatever it reads.
C20_QuitExitsAtFirstPoll ==
    [][ /\ (pc = "loop" /\ IsQuitKey(key')) =>
              /\ UNCHANGED << snake, length, score, fruitx, fruity, gameover >>
              /\ gameover' = 0
              /\ flag' = -1
              /\ pc' = "wait"
        /\ (pc = "wait" /\ flag = -1) => pc' = "done"
      ]_vars

====
